---- MODULE Spec2Model ----
(***************************************************************************)
(* A model of the Rabb1ts block-ingestion pipeline:                        *)
(*   - niceparser/src/protocol.py : the protocol engine (pure functions    *)
(*     and process_block_unified),                                         *)
(*   - niceparser/src/parse.py    : the ingestion loop parse(),            *)
(*   - niceparser/src/fetcher.py  : RSFetcher (producer thread, bounded    *)
(*     queue, stop) and PurePythonFetcher,                                 *)
(*   - the ledger store Rb1tsStore and the ShutdownManager, whose code is  *)
(*     not part of the sources at hand and is modelled from the contract   *)
(*     stated in the design document.                                      *)
(***************************************************************************)
EXTENDS Integers, Sequences, FiniteSets, TLC

(***************************************************************************)
(* Python's decimal arithmetic (default context: 28 significant digits,    *)
(* ROUND_HALF_EVEN), as used by protocol.py through `Decimal as D`.        *)
(* A decimal is [c |-> digits of the coefficient, most significant first,  *)
(* e |-> exponent]; its value is c * 10^e.  Coefficients are digit         *)
(* sequences because 28 digits do not fit a machine integer.               *)
(***************************************************************************)
DecPrec == 28

RECURSIVE NatDigits(_)
NatDigits(n) == IF n < 10 THEN <<n>> ELSE Append(NatDigits(n \div 10), n % 10)

RECURSIVE DigitsToNat(_)
DigitsToNat(ds) ==
    IF ds = <<>> THEN 0
    ELSE 10 * DigitsToNat(SubSeq(ds, 1, Len(ds) - 1)) + ds[Len(ds)]

RECURSIVE StripZeros(_)
StripZeros(ds) ==
    IF Len(ds) > 1 /\ Head(ds) = 0 THEN StripZeros(Tail(ds)) ELSE ds

Zeros(n) == [i \in 1..n |-> 0]

IsZeroDigits(ds) == \A i \in 1..Len(ds) : ds[i] = 0

\* ds + 1 on a digit sequence (carrying into a new leading digit if needed).
RECURSIVE DigitsAddOne(_)
DigitsAddOne(ds) ==
    IF ds = <<>> THEN <<1>>
    ELSE IF ds[Len(ds)] < 9
         THEN [ds EXCEPT ![Len(ds)] = @ + 1]
         ELSE Append(DigitsAddOne(SubSeq(ds, 1, Len(ds) - 1)), 0)

\* divmod(ds, b) by long division: the quotient's digits and the remainder.
RECURSIVE LongDiv(_, _, _, _)
LongDiv(ds, b, rem, acc) ==
    IF ds = <<>> THEN [q |-> StripZeros(acc), r |-> rem]
    ELSE LET cur == rem * 10 + Head(ds)
         IN  LongDiv(Tail(ds), b, cur % b, Append(acc, cur \div b))

\* ds * v for a natural v, digit by digit from the right; the carry is
\* split so that no intermediate exceeds v + 100.
RECURSIVE MulDigits(_, _, _, _)
MulDigits(ds, v, carry, acc) ==
    IF ds = <<>>
    THEN IF carry = 0 THEN acc ELSE NatDigits(carry) \o acc
    ELSE LET d  == ds[Len(ds)]
             lo == d * (v % 10) + (carry % 10)
             hi == d * (v \div 10) + (carry \div 10) + (lo \div 10)
         IN  MulDigits(SubSeq(ds, 1, Len(ds) - 1), v, hi, <<lo % 10>> \o acc)

\* Decimal._fix: round the coefficient to DecPrec digits, ROUND_HALF_EVEN.
DecFix(d) ==
    IF Len(d.c) <= DecPrec THEN d
    ELSE LET keep  == SubSeq(d.c, 1, DecPrec)
             rest  == SubSeq(d.c, DecPrec + 1, Len(d.c))
             tail  == SubSeq(rest, 2, Len(rest))
             half  == rest[1] = 5 /\ IsZeroDigits(tail)
             up    == IF half THEN keep[DecPrec] % 2 = 1 ELSE rest[1] >= 5
             c1    == IF up THEN DigitsAddOne(keep) ELSE keep
             e1    == d.e + Len(rest)
         IN  IF Len(c1) > DecPrec
             THEN [c |-> SubSeq(c1, 1, Len(c1) - 1), e |-> e1 + 1]
             ELSE [c |-> c1, e |-> e1]

\* Strip trailing zeros of an exact quotient while the exponent is negative.
RECURSIVE DecNormExact(_)
DecNormExact(d) ==
    IF d.e < 0 /\ Len(d.c) > 1 /\ d.c[Len(d.c)] = 0
    THEN DecNormExact([c |-> SubSeq(d.c, 1, Len(d.c) - 1), e |-> d.e + 1])
    ELSE d

\* D(a) / D(b) for naturals a, b with b > 0 (Decimal.__truediv__).
DecDiv(a, b) ==
    IF a = 0 THEN [c |-> <<0>>, e |-> 0]
    ELSE LET shift == Len(NatDigits(b)) - Len(NatDigits(a)) + DecPrec + 1
             dm    == LongDiv(NatDigits(a) \o Zeros(shift), b, 0, <<>>)
             raw   == IF dm.r # 0
                      THEN [c |-> IF dm.q[Len(dm.q)] % 5 = 0
                                  THEN DigitsAddOne(dm.q) ELSE dm.q,
                            e |-> 0 - shift]
                      ELSE DecNormExact([c |-> dm.q, e |-> 0 - shift])
         IN  DecFix(raw)

\* D(v) * d for a natural v (Decimal.__mul__).
DecMul(v, d) ==
    IF v = 0 \/ IsZeroDigits(d.c) THEN [c |-> <<0>>, e |-> d.e]
    ELSE DecFix([c |-> StripZeros(MulDigits(d.c, v, 0, <<>>)), e |-> d.e])

\* int(d): truncation towards zero (Decimal.__int__).
DecInt(d) ==
    IF d.e >= 0 THEN DigitsToNat(d.c \o Zeros(d.e))
    ELSE IF Len(d.c) + d.e <= 0 THEN 0
    ELSE DigitsToNat(SubSeq(d.c, 1, Len(d.c) + d.e))

(***************************************************************************)
(* protocol.py: the pure functions.                                        *)
(***************************************************************************)
MIN_ZERO_COUNT == 5
MAX_REWARD == 100000000

RECURSIVE SumSeq(_)
SumSeq(s) == IF s = <<>> THEN 0 ELSE Head(s) + SumSeq(Tail(s))

RECURSIVE Pow16(_)
Pow16(n) == IF n = 0 THEN 1 ELSE 16 * Pow16(n - 1)

\* calculate_reward with the exponent of line 21 one too high
calculate_reward_exponent_off(zero_count, max_zero_count) ==
    IF zero_count < MIN_ZERO_COUNT THEN 0
    ELSE IF max_zero_count - zero_count >= 6 THEN 0
    ELSE DecInt(DecDiv(MAX_REWARD, Pow16(max_zero_count - zero_count + 1)))

\* calculate_reward with the threshold of line 19 one too low
calculate_reward_from_below(zero_count, max_zero_count) ==
    IF zero_count < MIN_ZERO_COUNT - 1 THEN 0
    ELSE IF max_zero_count - zero_count >= 7 THEN 0
    ELSE DecInt(DecDiv(MAX_REWARD,
                       Pow16(IF max_zero_count > zero_count
                             THEN max_zero_count - zero_count ELSE 0)))

\* calculate_reward(zero_count, max_zero_count).  16^7 already exceeds
\* MAX_REWARD, so the quotient truncates to 0 from there on; smaller
\* powers divide through Decimal like the code.
calculate_reward(zero_count, max_zero_count) ==
    IF zero_count < MIN_ZERO_COUNT THEN 0
    ELSE IF max_zero_count - zero_count >= 7 THEN 0
    ELSE DecInt(DecDiv(MAX_REWARD, Pow16(max_zero_count - zero_count)))

DistributionShareRoundedUp(value, output_value, total_output) ==
    DecInt(DecMul(value, DecDiv(output_value, total_output))) + 1

\* One element of the list comprehension of calculate_distribution.
DistributionShare(value, output_value, total_output) ==
    DecInt(DecMul(value, DecDiv(output_value, total_output)))

calculate_distribution(value, output_values) ==
    LET total_output == SumSeq(output_values)
    IN  IF total_output = 0 THEN [i \in 1..Len(output_values) |-> 0]
        ELSE LET distribution ==
                     [i \in 1..Len(output_values) |->
                        DistributionShare(value, output_values[i], total_output)]
                 total_distributed == SumSeq(distribution)
             IN  IF total_distributed < value
                 THEN [distribution EXCEPT ![1] = @ + (value - total_distributed)]
                 ELSE distribution


\* Non-OP_RETURN outputs of a transaction, in order.
ValidOutputs(tx) == SelectSeq(tx.vout, LAMBDA out : ~out.is_op_return)

Min(a, b) == IF a < b THEN a ELSE b

\* generate_movements(tx, quantity, output_values): the list of credits.
generate_movements(tx, quantity, output_values) ==
    LET distribution == calculate_distribution(quantity, output_values)
        valid        == ValidOutputs(tx)
        kept         == IF Len(valid) > 1
                        THEN SubSeq(valid, 1, Len(valid) - 1) ELSE valid
    IN  [i \in 1..Min(Len(kept), Len(distribution)) |->
            [utxo_id |-> kept[i].utxo_id, quantity |-> distribution[i]]]

(***************************************************************************)
(* The blocks the block source can deliver.  utxo ids are small naturals;  *)
(* id 0 is the coinbase marker's placeholder id.                           *)
(***************************************************************************)
NumUtxo == 5
Utxos == 1..NumUtxo

Vin(u)  == [coinbase |-> FALSE, utxo_id |-> u]
VinCoinbase == [coinbase |-> TRUE, utxo_id |-> 0]
Vout(v, u) == [value |-> v, is_op_return |-> FALSE, utxo_id |-> u]
VoutData(u) == [value |-> 0, is_op_return |-> TRUE, utxo_id |-> u]

\* a coinbase transaction (skipped by the protocol engine)
TxCoinbase == [tx_id |-> "cb", zero_count |-> 6,
               vin |-> <<VinCoinbase>>, vout |-> <<Vout(50, 5)>>]
\* a nice transaction with outputs of 300 and 700 (scenario 1 of the design)
TxNice == [tx_id |-> "nice", zero_count |-> 6,
           vin |-> <<Vin(4)>>, vout |-> <<Vout(300, 1), Vout(700, 2)>>]
\* spends utxo 1 towards three equal outputs and a change output
TxSplit == [tx_id |-> "split", zero_count |-> 0,
            vin |-> <<Vin(1)>>,
            vout |-> <<Vout(1, 2), Vout(1, 3), Vout(1, 4), Vout(9, 5)>>]
\* a nice transaction whose only eligible output has value 0
TxZero == [tx_id |-> "zero", zero_count |-> 5,
           vin |-> <<Vin(1)>>, vout |-> <<Vout(0, 3)>>]
\* a transaction with only a data-carrying output
TxData == [tx_id |-> "data", zero_count |-> 0,
           vin |-> <<Vin(2)>>, vout |-> <<VoutData(5)>>]

BlockBodies == { <<TxCoinbase, TxNice>>, <<TxCoinbase, TxSplit>>,
                 <<TxNice, TxZero>>, <<TxData>> }

RECURSIVE MaxZero(_)
MaxZero(txs) ==
    IF txs = <<>> THEN 0
    ELSE LET m == MaxZero(Tail(txs))
         IN  IF Head(txs).zero_count > m THEN Head(txs).zero_count ELSE m

\* The normalised block the source hands over: max_zero_count is the
\* maximum zero_count of its transactions.
MakeBlock(h, body) == [height |-> h, tx |-> body, max_zero_count |-> MaxZero(body)]

NoBlock == [height |-> -1, tx |-> <<>>, max_zero_count |-> 0]

(***************************************************************************)
(* The ledger store (Rb1tsStore), from its contract.  The committed part   *)
(* (balances, supply, last_indexed, undo) is durable; the working part     *)
(* (the open block) is lost when the process dies.                         *)
(***************************************************************************)
EmptyBalances == [u \in Utxos |-> 0]

FreshStore == [balances |-> EmptyBalances, supply |-> 0, last_indexed |-> 0,
               undo |-> <<>>,
               open |-> FALSE, in_tx |-> FALSE, w_height |-> 0,
               w_balances |-> EmptyBalances, w_supply |-> 0]

get_last_indexed_block(st) == st.last_indexed

start_block(st, height) ==
    [st EXCEPT !.open = TRUE, !.w_height = height,
               !.w_balances = st.balances, !.w_supply = st.supply]

\* start_transaction(tx_id, reward): opens the transaction bracket and
\* records the minted reward (the nice-hash event).
start_transaction(st, reward) ==
    [st EXCEPT !.in_tx = TRUE, !.w_supply = @ + reward]

end_transaction(st) == [st EXCEPT !.in_tx = FALSE]

\* pop_balance(utxo_id): read and zero; an unknown id contributes 0.
PopValue(st, u) == IF u \in Utxos THEN st.w_balances[u] ELSE 0
pop_balance(st, u) ==
    IF u \in Utxos THEN [st EXCEPT !.w_balances[u] = 0] ELSE st

add_balance(st, u, amount) == [st EXCEPT !.w_balances[u] = @ + amount]

\* end_block(): the block's effects and the cursor become durable in one
\* step; the prior values of the touched entries are kept for rollback.
end_block(st) ==
    [st EXCEPT !.balances = st.w_balances, !.supply = st.w_supply,
               !.last_indexed = st.w_height,
               !.undo = Append(@, [height |-> st.w_height,
                                   touched |-> {u \in Utxos :
                                       st.w_balances[u] # st.balances[u]},
                                   prior |-> st.balances,
                                   minted |-> st.w_supply - st.supply]),
               !.open = FALSE, !.in_tx = FALSE]

HasUndo(st, height) == \E i \in 1..Len(st.undo) : st.undo[i].height = height

\* rollback_block(height): reverse the mutations committed for that height
\* and set the cursor to height - 1.
rollback_block(st, height) ==
    IF HasUndo(st, height)
    THEN LET i == CHOOSE j \in 1..Len(st.undo) :
                     /\ st.undo[j].height = height
                     /\ \A k \in (j + 1)..Len(st.undo) : st.undo[k].height # height
             rec == st.undo[i]
         IN  [st EXCEPT !.balances = [u \in Utxos |->
                                        IF u \in rec.touched THEN rec.prior[u]
                                        ELSE st.balances[u]],
                        !.supply = @ - rec.minted,
                        !.last_indexed = height - 1,
                        !.undo = SubSeq(st.undo, 1, i - 1)
                                 \o SubSeq(st.undo, i + 1, Len(st.undo))]
    ELSE [st EXCEPT !.last_indexed = height - 1]

\* The state a process finds after the previous one ended or died: the
\* open block, never committed, is gone.
Durable(st) ==
    [st EXCEPT !.open = FALSE, !.in_tx = FALSE, !.w_height = 0,
               !.w_balances = EmptyBalances, !.w_supply = 0]

RECURSIVE SumOver(_, _)
SumOver(f, S) ==
    IF S = {} THEN 0
    ELSE LET u == CHOOSE v \in S : TRUE IN f[u] + SumOver(f, S \ {u})

SumBalances(bal) == SumOver(bal, Utxos)

(***************************************************************************)
(* protocol.py: process_block_unified, one transaction at a time.  An      *)
(* engine state is [st |-> store, calls |-> the ledger calls made so far]. *)
(***************************************************************************)
Call(op, a, b) == [op |-> op, a |-> a, b |-> b]

\* "for vin in tx['vin']: total_in += pop_balance(vin['utxo_id'])"
RECURSIVE PopInputs(_, _, _)
PopInputs(es, vins, total) ==
    IF vins = <<>> THEN [st |-> es.st, calls |-> es.calls, total |-> total]
    ELSE LET u == Head(vins).utxo_id
         IN  PopInputs([st |-> pop_balance(es.st, u),
                        calls |-> Append(es.calls, Call("pop_balance", u, 0))],
                       Tail(vins), total + PopValue(es.st, u))

\* the loop over the movements with the test of the amount left out
RECURSIVE AddMovementsUnfiltered(_, _)
AddMovementsUnfiltered(es, mvs) ==
    IF mvs = <<>> THEN es
    ELSE LET mv == Head(mvs)
         IN  AddMovementsUnfiltered(
                [st |-> add_balance(es.st, mv.utxo_id, mv.quantity),
                 calls |-> Append(es.calls,
                             Call("add_balance", mv.utxo_id, mv.quantity))],
                Tail(mvs))

\* "for mv in movements: if mv['quantity'] > 0: add_balance(...)"
RECURSIVE AddMovements(_, _)
AddMovements(es, mvs) ==
    IF mvs = <<>> THEN es
    ELSE LET mv == Head(mvs)
         IN  IF mv.quantity > 0
             THEN AddMovements(
                    [st |-> add_balance(es.st, mv.utxo_id, mv.quantity),
                     calls |-> Append(es.calls,
                                 Call("add_balance", mv.utxo_id, mv.quantity))],
                    Tail(mvs))
             ELSE AddMovements(es, Tail(mvs))

\* the body of the loop without the closing end_transaction()
ProcessTransactionLeftOpen(es, tx, block) ==
    LET values == [i \in 1..Len(ValidOutputs(tx)) |-> ValidOutputs(tx)[i].value]
    IN  IF tx.vin[1].coinbase THEN es
        ELSE IF values = <<>> THEN es
        ELSE LET output_values == IF Len(values) > 1
                                  THEN SubSeq(values, 1, Len(values) - 1)
                                  ELSE values
                 reward == calculate_reward(tx.zero_count, block.max_zero_count)
                 s1 == [st |-> start_transaction(es.st, reward),
                        calls |-> Append(es.calls,
                                    Call("start_transaction", tx.tx_id, reward))]
                 s2 == PopInputs(s1, tx.vin, 0)
                 total_to_distribute == s2.total + reward
             IN  IF total_to_distribute > 0
                 THEN AddMovements([st |-> s2.st, calls |-> s2.calls],
                        generate_movements(tx, total_to_distribute,
                                           output_values))
                 ELSE [st |-> s2.st, calls |-> s2.calls]

\* the body of the loop without the "continue" of a coinbase transaction
ProcessTransactionCoinbaseApplied(es, tx, block) ==
    LET values == [i \in 1..Len(ValidOutputs(tx)) |-> ValidOutputs(tx)[i].value]
    IN  IF values = <<>> THEN es
        ELSE LET output_values == IF Len(values) > 1
                                  THEN SubSeq(values, 1, Len(values) - 1)
                                  ELSE values
                 reward == calculate_reward(tx.zero_count, block.max_zero_count)
                 s1 == [st |-> start_transaction(es.st, reward),
                        calls |-> Append(es.calls,
                                    Call("start_transaction", tx.tx_id, reward))]
                 s2 == PopInputs(s1, tx.vin, 0)
                 total_to_distribute == s2.total + reward
                 s3 == IF total_to_distribute > 0
                       THEN AddMovements([st |-> s2.st, calls |-> s2.calls],
                              generate_movements(tx, total_to_distribute,
                                                 output_values))
                       ELSE [st |-> s2.st, calls |-> s2.calls]
             IN  [st |-> end_transaction(s3.st),
                  calls |-> Append(s3.calls, Call("end_transaction", 0, 0))]

\* The body of the loop over block["tx"] for one transaction.
ProcessTransaction(es, tx, block) ==
    LET values == [i \in 1..Len(ValidOutputs(tx)) |-> ValidOutputs(tx)[i].value]
    IN  IF tx.vin[1].coinbase THEN es
        ELSE IF values = <<>> THEN es
        ELSE LET output_values == IF Len(values) > 1
                                  THEN SubSeq(values, 1, Len(values) - 1)
                                  ELSE values
                 reward == calculate_reward(tx.zero_count, block.max_zero_count)
                 s1 == [st |-> start_transaction(es.st, reward),
                        calls |-> Append(es.calls,
                                    Call("start_transaction", tx.tx_id, reward))]
                 s2 == PopInputs(s1, tx.vin, 0)
                 total_to_distribute == s2.total + reward
                 s3 == IF total_to_distribute > 0
                       THEN AddMovements([st |-> s2.st, calls |-> s2.calls],
                              generate_movements(tx, total_to_distribute,
                                                 output_values))
                       ELSE [st |-> s2.st, calls |-> s2.calls]
             IN  [st |-> end_transaction(s3.st),
                  calls |-> Append(s3.calls, Call("end_transaction", 0, 0))]

(***************************************************************************)
(* config.py and the constants of parse.py.                                *)
(***************************************************************************)
START_HEIGHT == 69000
\* parse.py line 35: below this cursor the RSFetcher is selected
FETCHER_SWITCH_HEIGHT == 1073
\* parse.py line 70: the first AuxPoW height
AUXPOW_HEIGHT == 1074
\* parse.py line 58: absent results before the fetcher is replaced
NONE_LIMIT == 3

\* The keys of CONFIG["mainnet"].
ConfigKeys == {"DATA_DIR", "BACKEND_URL", "BACKEND_SSL_NO_VERIFY",
               "REQUESTS_TIMEOUT", "FETCHER_DB", "BALANCES_STORE",
               "MIN_ZERO_COUNT", "MAX_REWARD", "UNIT", "START_HEIGHT"}

\* The keys RSFetcher.__init__ reads through Config()[...]; a missing key
\* raises KeyError out of the constructor.
RSFetcherKeys == {"BACKEND_URL", "FETCHER_DB", "BATCH_SIZE",
                  "ADDRESS_VERSION", "P2SH_ADDRESS_VERSION"}
RSFetcherConstructible == RSFetcherKeys \subseteq ConfigKeys

(***************************************************************************)
(* Bounds of the model.                                                    *)
(***************************************************************************)
\* blocks the block source hands over in one behaviour
MaxBlocks == 3
\* the canonical chain of the resume scenario ends this far above the start
ChainLen == 3
\* consecutive absent results the block source gives
MaxAbsent == 3

VARIABLES
    pc,                 \* where parse() stands
    current_height,     \* parse(): the ingestion cursor
    fetcher,            \* parse(): [kind, height] of the active fetcher
    none_count,         \* parse(): consecutive absent results
    block,              \* parse(): the block being handled
    txi,                \* process_block_unified: index of the next transaction
    shutdown_requested, \* ShutdownManager: the shutdown flag
    error,              \* the exception that ended the loop, "none" if none
    store,              \* the ledger store
    calls,              \* ledger calls made for the current block
    recv_cursor,        \* the cursor when the current block was received
    apply_cursor,       \* the cursor when the rollbacks for it were done
    snaps,              \* per applied block: the ledger and cursor before it
    received,           \* blocks handed over so far (counted where the
                        \* source is bounded by MaxBlocks)
    interruptions,      \* how earlier runs on this store ended
    world               \* which block source the behaviour runs against

\* RSFetcher and its threads
VARIABLES
    prefeteched_block,  \* RSFetcher: the queue of prefetched blocks
    stopped_event,      \* RSFetcher: the stop signal
    ppc,                \* producer thread: where prefetch_block stands
    pblock,             \* producer thread: the fetched block not yet enqueued
    attempt_count,      \* producer thread: failed insertions of pblock
    cpc,                \* consumer: where get_next_block stands
    spc,                \* where stop() stands
    source_next,        \* the height the block source yields next
    obtained,           \* blocks the producer obtained from the source
    delivered,          \* blocks get_next_block returned
    last_return         \* how the last call of get_next_block returned

pvars == <<pc, current_height, fetcher, none_count, block, txi,
           shutdown_requested, error, store, calls, recv_cursor,
           apply_cursor, snaps, received, interruptions, world>>

fvars == <<prefeteched_block, stopped_event, ppc, pblock, attempt_count,
           cpc, spc, source_next, obtained, delivered, last_return>>

\* the ShutdownManager of parse()
VARIABLES
    registered,         \* resources registered for shutdown: [resource (its
                        \* class), name, close_method, priority]
    closed,             \* names of the resources closed, in the order closed
    shutdowns           \* calls of shutdown_mgr.shutdown() in this run

svars == <<registered, closed, shutdowns>>

\* calls of the pure functions of protocol.py
VARIABLES
    d_pc,               \* calculate_distribution: "idle", "called", "returned"
    d_value,            \* calculate_distribution: the argument value
    d_outputs,          \* calculate_distribution: the argument output_values
    d_result,           \* calculate_distribution: the list returned
    r_pc,               \* calculate_reward: "idle", "called", "returned"
    r_zero,             \* calculate_reward: the argument zero_count
    r_max,              \* calculate_reward: the argument max_zero_count
    r_result,           \* calculate_reward: the value returned
    g_pc,               \* generate_movements: "idle", "called", "returned", "applied"
    g_tx,               \* generate_movements: the argument tx
    g_quantity,         \* generate_movements: the argument quantity
    g_result,           \* generate_movements: the list returned
    g_calls             \* the ledger calls made for the list returned

\* the utxo id of one output, as the parser and the query layer compute it
VARIABLES
    u_txid,             \* the transaction id of the output, in hex
    u_n,                \* the index of the output
    u_vout_id,          \* adapt_auxpow_block: utxo_id of the output
    u_vin_id,           \* adapt_auxpow_block: utxo_id of the input spending it
    u_query_id          \* utxo_to_utxo_id(txid, n) of the query layer

uvars == <<u_txid, u_n, u_vout_id, u_vin_id, u_query_id>>

\* Rb1tsQueries and the index database it reads
VARIABLES
    db_blocks,          \* table blocks: the heights logged, in order
    db_nicehashes,      \* table nicehashes: the rows, in order of insertion
    latest_nicehashes_cache,               \* _latest_nicehashes_cache
    latest_nicehashes_cache_block_height,  \* _latest_nicehashes_cache_block_height
    q_result,           \* get_latest_nicehashes: the list last returned
    q_calls,            \* calls of get_latest_nicehashes
    q_reads,            \* SELECTs on table nicehashes
    q_changed           \* the max height changed since the cache was filled

qvars == <<db_blocks, db_nicehashes, latest_nicehashes_cache,
           latest_nicehashes_cache_block_height, q_result, q_calls, q_reads,
           q_changed>>

fnvars == <<d_pc, d_value, d_outputs, d_result, r_pc, r_zero, r_max, r_result,
            g_pc, g_tx, g_quantity, g_result, g_calls, uvars, qvars>>

vars == <<pvars, fvars, svars, fnvars>>

\* no call of calculate_distribution is under way
DistributionIdle ==
    d_pc = "idle" /\ d_value = 0 /\ d_outputs = <<>> /\ d_result = <<>>

\* no call of calculate_reward is under way
RewardIdle ==
    r_pc = "idle" /\ r_zero = 0 /\ r_max = 0 /\ r_result = 0

\* no call of generate_movements is under way
MovementsIdle ==
    /\ g_pc = "idle" /\ g_tx = TxData /\ g_quantity = 0
    /\ g_result = <<>> /\ g_calls = <<>>

\* no utxo id is being computed
NoId == [alg |-> "none", input |-> <<>>]
UtxoIdle ==
    /\ u_txid = <<>> /\ u_n = 0
    /\ u_vout_id = NoId /\ u_vin_id = NoId /\ u_query_id = NoId

\* queries.py lines 143-147, Rb1tsQueries.__init__: the cache is None and
\* its height 0; the database holds no block
NoCache == [filled |-> FALSE, list |-> <<>>]
QueriesConstructed ==
    /\ db_blocks = <<>>
    /\ db_nicehashes = <<>>
    /\ latest_nicehashes_cache = NoCache
    /\ latest_nicehashes_cache_block_height = 0
    /\ q_result = <<>>
    /\ q_calls = 0
    /\ q_reads = 0
    /\ q_changed = FALSE

\* RSFetcher.__init__ (lines 31-41): an empty queue, the signal clear, the
\* producer thread started
FetcherConstructed ==
    /\ prefeteched_block = <<>>
    /\ stopped_event = FALSE
    /\ ppc = "top"
    /\ pblock = 0
    /\ attempt_count = 0
    /\ cpc = "idle"
    /\ spc = "idle"
    /\ source_next = 1
    /\ obtained = <<>>
    /\ delivered = <<>>
    /\ last_return = "no call"

NoFetcher == [kind |-> "none", height |-> 0]
PurePythonFetcher(start_height) == [kind |-> "PP", height |-> start_height]
RSFetcher(start_height) == [kind |-> "RS", height |-> start_height]

\* the methods the two fetcher classes define besides __init__
MethodsOf(kind) ==
    IF kind = "RS" THEN {"get_next_block", "prefetch_block", "stop"}
    ELSE IF kind = "PP" THEN {"get_next_block"}
    ELSE {}

Constructed(w) ==
    /\ pc = "start"
    /\ current_height = 0
    /\ fetcher = NoFetcher
    /\ none_count = 0
    /\ block = NoBlock
    /\ txi = 0
    /\ shutdown_requested = FALSE
    /\ error = "none"
    /\ store = FreshStore
    /\ calls = <<>>
    /\ recv_cursor = 0
    /\ apply_cursor = 0
    /\ snaps = <<>>
    /\ received = 0
    /\ interruptions = {}
    /\ world = w
    /\ FetcherConstructed
    /\ registered = {}
    /\ closed = <<>>
    /\ shutdowns = 0

InitWith(w) ==
    /\ Constructed(w)
    /\ DistributionIdle /\ RewardIdle /\ MovementsIdle
    /\ UtxoIdle /\ QueriesConstructed

(***************************************************************************)
(* The ShutdownManager, from its use in parse(): resources are registered  *)
(* with a priority and shutdown() closes them in the order of priority.    *)
(***************************************************************************)
register_resource(resource, name, close_method, priority) ==
    [resource |-> resource, name |-> name, close_method |-> close_method,
     priority |-> priority]

RECURSIVE CloseOrder(_)
CloseOrder(resources) ==
    IF resources = {} THEN <<>>
    ELSE LET first == CHOOSE r \in resources :
                        \A o \in resources : r.priority <= o.priority
         IN  <<first.name>> \o CloseOrder(resources \ {first})

(***************************************************************************)
(* parse.py: initialisation (lines 16-47).                                 *)
(***************************************************************************)
\* lines 24-32: the starting cursor
StartCursorConfigured(st) == START_HEIGHT

\* the starting cursor one above the persisted one
StartCursorAbove(st) ==
    IF get_last_indexed_block(st) > 0 THEN get_last_indexed_block(st) + 1
    ELSE START_HEIGHT

StartCursor(st) ==
    IF get_last_indexed_block(st) > 0 THEN get_last_indexed_block(st)
    ELSE START_HEIGHT

Initialise ==
    /\ pc = "start"
    /\ \E raised \in BOOLEAN :
         LET h == StartCursor(store)
         IN  IF raised \/ (h < FETCHER_SWITCH_HEIGHT /\ ~RSFetcherConstructible)
             THEN \* lines 20-36 raise (the store cannot be opened, or
                  \* RSFetcher(...) raises KeyError): "except Exception" of
                  \* line 124, then the finally clause
                  /\ current_height' = IF raised THEN current_height ELSE h
                  /\ fetcher' = NoFetcher
                  /\ registered' = {}
                  /\ error' = "init"
                  /\ pc' = "finally"
             ELSE /\ current_height' = h
                  /\ fetcher' = IF h < FETCHER_SWITCH_HEIGHT
                                THEN RSFetcher(h) ELSE PurePythonFetcher(h)
                  /\ registered' =
                       {register_resource(fetcher'.kind, "Block Fetcher",
                                          "stop", 1),
                        register_resource("Rb1tsStore", "Rb1tsStore",
                                          "close", 2)}
                  /\ error' = "none"
                  /\ pc' = "loop"
    /\ none_count' = 0
    /\ UNCHANGED <<block, txi, shutdown_requested, store, calls, recv_cursor,
                   apply_cursor, snaps, received, interruptions, world>>
    /\ UNCHANGED fvars
    /\ UNCHANGED <<closed, shutdowns>>
    /\ UNCHANGED fnvars

(***************************************************************************)
(* The block source, seen through fetcher.get_next_block.  A result is     *)
(* [kind |-> "block" | "none" | "error", height, body].                    *)
(***************************************************************************)
ResBlock(h, body) == [kind |-> "block", height |-> h, body |-> body]
ResNone  == [kind |-> "none",  height |-> 0, body |-> <<>>]
ResError == [kind |-> "error", height |-> 0, body |-> <<>>]

\* the canonical chain of the resume scenario
ChainTip == START_HEIGHT + ChainLen
ChainBody(h) ==
    IF h % 3 = 1 THEN <<TxCoinbase, TxNice>>
    ELSE IF h % 3 = 2 THEN <<TxCoinbase, TxSplit>>
    ELSE <<TxNice, TxZero>>

FetchResults ==
    CASE world = "any" ->
           {ResError}
           \cup (IF none_count < MaxAbsent THEN {ResNone} ELSE {})
           \cup (IF received < MaxBlocks
                 THEN {ResBlock(h, b) : h \in (current_height - 1)..(current_height + 2),
                                        b \in BlockBodies}
                 ELSE {})
      [] OTHER ->
           {ResError}
           \cup (IF fetcher.height + 1 > ChainTip
                 THEN (IF none_count < MaxAbsent THEN {ResNone} ELSE {})
                 ELSE {ResBlock(fetcher.height + 1, ChainBody(fetcher.height + 1))})

(***************************************************************************)
(* parse.py: the ingestion loop (lines 49-122).                            *)
(***************************************************************************)
\* line 51, the loop condition being false: the loop ends
ExitOnShutdown ==
    /\ pc = "loop"
    /\ shutdown_requested
    /\ pc' = "finally"
    /\ UNCHANGED <<current_height, fetcher, none_count, block, txi,
                   shutdown_requested, error, store, calls, recv_cursor,
                   apply_cursor, snaps, received, interruptions, world>>
    /\ UNCHANGED fvars
    /\ UNCHANGED svars
    /\ UNCHANGED fnvars

RaiseInLoopContinue(e) ==
    /\ error' = e
    /\ pc' = "loop"

RaiseInLoopReturn(e) ==
    /\ error' = e
    /\ pc' = "done"

\* lines 118-122: an exception out of the loop body ends the loop
RaiseInLoop(e) ==
    /\ error' = e
    /\ pc' = "finally"

\* fetcher.py lines 296-299, PurePythonFetcher.get_next_block: the fetcher
\* after a call that had the result r
PurePythonFetcher_get_next_block_skipping(f, r) ==
    IF r.kind = "error" THEN f ELSE [f EXCEPT !.height = @ + 1]
PurePythonFetcher_get_next_block(f, r) ==
    IF r.kind = "block" THEN [f EXCEPT !.height = @ + 1] ELSE f

\* line 53: fetcher.get_next_block(timeout=0.5).  PurePythonFetcher asks
\* get_block_rpc for current_height + 1 and advances on a block; an RPC
\* failure is raised to the caller.
FetchNext ==
    /\ pc = "loop"
    /\ ~shutdown_requested
    /\ \E r \in FetchResults :
         /\ fetcher' = IF fetcher.kind = "PP"
                       THEN PurePythonFetcher_get_next_block(fetcher, r)
                       ELSE fetcher
         /\ CASE r.kind = "error" ->
                /\ RaiseInLoop("fetch")
                /\ UNCHANGED <<none_count, block, calls, recv_cursor,
                               received>>
           [] r.kind = "none" ->
                /\ pc' = "absent"
                /\ UNCHANGED <<none_count, block, calls, recv_cursor,
                               received, error>>
           [] OTHER ->
                /\ block' = MakeBlock(r.height, r.body)
                /\ none_count' = 0
                /\ calls' = <<>>
                /\ recv_cursor' = current_height
                /\ received' = IF world = "chain" THEN received ELSE received + 1
                /\ pc' = "check"
                /\ UNCHANGED error
    /\ UNCHANGED <<current_height, txi, shutdown_requested, store,
                   apply_cursor, snaps, interruptions, world>>
    /\ UNCHANGED fvars
    /\ UNCHANGED svars
    /\ UNCHANGED fnvars

\* lines 56-65: no block was available
Absent ==
    /\ pc = "absent"
    /\ IF none_count + 1 >= NONE_LIMIT /\ fetcher.kind # "PP"
       THEN /\ fetcher' = PurePythonFetcher(current_height)
            /\ none_count' = 0
            /\ pc' = "loop"
       ELSE /\ none_count' = none_count + 1
            /\ fetcher' = fetcher
            /\ pc' = IF shutdown_requested THEN "finally" ELSE "loop"
    /\ UNCHANGED <<current_height, block, txi, shutdown_requested, error,
                   store, calls, recv_cursor, apply_cursor, snaps, received,
                   interruptions, world>>
    /\ UNCHANGED fvars
    /\ UNCHANGED svars
    /\ UNCHANGED fnvars

\* lines 75-88: how the received height stands to the cursor
HeightStatusLoose(h, cur) ==
    IF h > cur + 2 THEN "ahead"
    ELSE IF h < cur + 1 THEN "behind"
    ELSE "next"

HeightStatus(h, cur) ==
    IF h > cur + 1 THEN "ahead"             \* line 76: raise
    ELSE IF h < cur + 1 THEN "behind"       \* line 82: roll back
    ELSE IF h = cur + 1 THEN "next"         \* line 88: the assertion holds
    ELSE "assert"

\* lines 69-79: the switch to PurePythonFetcher and the missed-block check
CheckHeight ==
    /\ pc = "check"
    /\ IF block.height = AUXPOW_HEIGHT /\ fetcher.kind # "PP"
       THEN /\ fetcher' = PurePythonFetcher(FETCHER_SWITCH_HEIGHT)
            /\ pc' = "loop"
            /\ UNCHANGED error
       ELSE /\ fetcher' = fetcher
            /\ IF HeightStatus(block.height, current_height) = "ahead"
               THEN RaiseInLoop("ahead")
               ELSE pc' = "reorg" /\ UNCHANGED error
    /\ UNCHANGED <<current_height, none_count, block, txi, shutdown_requested,
                   store, calls, recv_cursor, apply_cursor, snaps, received,
                   interruptions, world>>
    /\ UNCHANGED fvars
    /\ UNCHANGED svars
    /\ UNCHANGED fnvars

\* line 84: the height handed to rollback_block
RollbackTargetBelow(cur) == cur - 1
RollbackTarget(cur) == cur

\* line 85: the cursor after one rollback
CursorAfterRollbackTwice(cur) == cur - 2
CursorAfterRollback(cur) == cur - 1

\* lines 82-85: one iteration of the reorganisation loop
ReorgStep ==
    /\ pc = "reorg"
    /\ HeightStatus(block.height, current_height) = "behind"
    /\ store' = rollback_block(store, RollbackTarget(current_height))
    /\ calls' = Append(calls, Call("rollback_block", RollbackTarget(current_height), 0))
    /\ current_height' = CursorAfterRollback(current_height)
    /\ snaps' = IF snaps # <<>> /\ snaps[Len(snaps)].height = current_height
                THEN SubSeq(snaps, 1, Len(snaps) - 1) ELSE snaps
    /\ UNCHANGED <<pc, fetcher, none_count, block, txi, shutdown_requested,
                   error, recv_cursor, apply_cursor, received, interruptions, world>>
    /\ UNCHANGED fvars
    /\ UNCHANGED svars
    /\ UNCHANGED fnvars

\* lines 87-89: the assertion and the cursor's advance
\* lines 88-92 without the assignment of line 89
AdvanceCursorKept ==
    /\ pc = "reorg"
    /\ HeightStatus(block.height, current_height) # "behind"
    /\ IF HeightStatus(block.height, current_height) = "next"
       THEN /\ apply_cursor' = current_height
            /\ pc' = "process"
            /\ UNCHANGED <<current_height, error>>
       ELSE /\ RaiseInLoop("assert")
            /\ UNCHANGED <<current_height, apply_cursor>>
    /\ UNCHANGED <<fetcher, none_count, block, txi, shutdown_requested, store,
                   calls, recv_cursor, snaps, received, interruptions, world>>
    /\ UNCHANGED fvars
    /\ UNCHANGED svars
    /\ UNCHANGED fnvars

Advance ==
    /\ pc = "reorg"
    /\ HeightStatus(block.height, current_height) # "behind"
    /\ IF HeightStatus(block.height, current_height) = "next"
       THEN /\ apply_cursor' = current_height
            /\ current_height' = block.height
            /\ pc' = "process"
            /\ UNCHANGED error
       ELSE /\ RaiseInLoop("assert")
            /\ UNCHANGED <<current_height, apply_cursor>>
    /\ UNCHANGED <<fetcher, none_count, block, txi, shutdown_requested, store,
                   calls, recv_cursor, snaps, received, interruptions, world>>
    /\ UNCHANGED fvars
    /\ UNCHANGED svars
    /\ UNCHANGED fnvars

(***************************************************************************)
(* protocol.py: process_block_unified(block, store), lines 94-150.         *)
(***************************************************************************)
\* start_block followed by a check of the shutdown request
StartBlockInterruptible ==
    /\ pc = "process"
    /\ store' = start_block(store, block.height)
    /\ calls' = Append(calls, Call("start_block", block.height, 0))
    /\ txi' = 1
    /\ pc' = IF shutdown_requested THEN "finally" ELSE "tx"
    /\ UNCHANGED <<current_height, fetcher, none_count, block,
                   shutdown_requested, error, recv_cursor, apply_cursor, snaps,
                   received, interruptions, world>>
    /\ UNCHANGED fvars
    /\ UNCHANGED svars
    /\ UNCHANGED fnvars

StartBlock ==
    /\ pc = "process"
    /\ store' = start_block(store, block.height)
    /\ calls' = Append(calls, Call("start_block", block.height, 0))
    /\ txi' = 1
    /\ pc' = "tx"
    /\ UNCHANGED <<current_height, fetcher, none_count, block,
                   shutdown_requested, error, recv_cursor, apply_cursor, snaps,
                   received, interruptions, world>>
    /\ UNCHANGED fvars
    /\ UNCHANGED svars
    /\ UNCHANGED fnvars

ProcessTx ==
    /\ pc = "tx"
    /\ txi <= Len(block.tx)
    /\ LET es == ProcessTransaction([st |-> store, calls |-> calls],
                                    block.tx[txi], block)
       IN  store' = es.st /\ calls' = es.calls
    /\ txi' = txi + 1
    /\ UNCHANGED <<pc, current_height, fetcher, none_count, block,
                   shutdown_requested, error, recv_cursor, apply_cursor, snaps,
                   received, interruptions, world>>
    /\ UNCHANGED fvars
    /\ UNCHANGED svars
    /\ UNCHANGED fnvars

EndBlock ==
    /\ pc = "tx"
    /\ txi > Len(block.tx)
    /\ store' = end_block(store)
    /\ calls' = Append(calls, Call("end_block", 0, 0))
    /\ snaps' = Append(snaps, [height |-> block.height,
                               balances |-> store.balances,
                               cursor |-> apply_cursor])
    /\ pc' = "after"
    /\ UNCHANGED <<current_height, fetcher, none_count, block, txi,
                   shutdown_requested, error, recv_cursor, apply_cursor,
                   received, interruptions, world>>
    /\ UNCHANGED fvars
    /\ UNCHANGED svars
    /\ UNCHANGED fnvars

\* lines 94-111: statistics, then the shutdown check after each block
AfterBlock ==
    /\ pc = "after"
    /\ pc' = IF shutdown_requested THEN "finally" ELSE "loop"
    /\ UNCHANGED <<current_height, fetcher, none_count, block, txi,
                   shutdown_requested, error, store, calls, recv_cursor,
                   apply_cursor, snaps, received, interruptions, world>>
    /\ UNCHANGED fvars
    /\ UNCHANGED svars
    /\ UNCHANGED fnvars

\* lines 129-133: shutdown_mgr.shutdown() closes the registered resources
\* and parse() returns.
Finally ==
    /\ pc = "finally"
    /\ store' = Durable(store)
    /\ shutdowns' = shutdowns + 1
    /\ closed' = closed \o CloseOrder(registered)
    /\ pc' = "done"
    /\ UNCHANGED <<current_height, fetcher, none_count, block, txi,
                   shutdown_requested, error, calls, recv_cursor, apply_cursor,
                   snaps, received, interruptions, world>>
    /\ UNCHANGED fvars
    /\ UNCHANGED registered
    /\ UNCHANGED fnvars

\* lines 113-127: the exceptions parse() catches itself.  Those raised in
\* the model (a failed fetch, the height gap, the assertion, a failed
\* initialisation) are all instances of Exception.
HandledInParse == {"fetch", "ahead", "assert", "init"}

\* lines 136-142: the status the process ends with once parse() is over:
\* the interpreter's 1 when an exception left parse(), else 0, no exit
\* status being set anywhere
exit_status(err) == IF err = "none" \/ err \in HandledInParse THEN 0 ELSE 1

(***************************************************************************)
(* The environment of the process.                                         *)
(***************************************************************************)
Running == pc \notin {"start", "done", "crashed"}

\* a termination signal: the ShutdownManager sets its flag
RequestShutdown ==
    /\ Running
    /\ ~shutdown_requested
    /\ shutdown_requested' = TRUE
    /\ UNCHANGED <<pc, current_height, fetcher, none_count, block, txi, error,
                   store, calls, recv_cursor, apply_cursor, snaps, received,
                   interruptions, world>>
    /\ UNCHANGED fvars
    /\ UNCHANGED svars
    /\ UNCHANGED fnvars

\* the process dies: only the durable part of the store survives
Crash ==
    /\ Running
    /\ pc' = "crashed"
    /\ store' = Durable(store)
    /\ interruptions' = interruptions
                         \cup {IF store.open THEN "crash in block" ELSE "crash"}
    /\ UNCHANGED <<current_height, fetcher, none_count, block, txi,
                   shutdown_requested, error, calls, recv_cursor, apply_cursor,
                   snaps, received, world>>
    /\ UNCHANGED fvars
    /\ UNCHANGED svars
    /\ UNCHANGED fnvars

\* parse() is run again on the same store
Restart ==
    /\ pc \in {"done", "crashed"}
    /\ pc' = "start"
    /\ current_height' = 0
    /\ fetcher' = NoFetcher
    /\ none_count' = 0
    /\ block' = NoBlock
    /\ txi' = 0
    /\ shutdown_requested' = FALSE
    /\ error' = "none"
    /\ calls' = <<>>
    /\ recv_cursor' = 0
    /\ apply_cursor' = 0
    /\ interruptions' = IF pc = "done" /\ error = "none"
                         THEN interruptions \cup {"clean"} ELSE interruptions
    /\ UNCHANGED <<store, snaps, received, world>>
    /\ UNCHANGED fvars
    /\ registered' = {}
    /\ closed' = <<>>
    /\ shutdowns' = 0
    /\ UNCHANGED fnvars

LoopNext ==
    \/ Initialise
    \/ FetchNext
    \/ Absent
    \/ CheckHeight
    \/ Advance
    \/ StartBlock
    \/ ProcessTx
    \/ EndBlock
    \/ AfterBlock
    \/ Finally
    \/ ExitOnShutdown
    \/ RequestShutdown

\* the ingestion loop against an arbitrary block source
Init == InitWith("any")
Next == LoopNext \/ ReorgStep
Spec == Init /\ [][Next]_vars

\* the ingestion loop, killed and restarted at will, against a node that
\* serves one canonical chain (it never reorganises, so the rollback loop
\* is never entered)
InitResume == InitWith("chain")
NextResume == LoopNext \/ Crash \/ Restart
SpecResume == InitResume /\ [][NextResume]_vars

(***************************************************************************)
(* fetcher.py: RSFetcher.  One producer thread runs prefetch_block, any    *)
(* thread calls get_next_block, and stop() is called once.  The block      *)
(* source (Indexer.get_block_non_blocking) yields the blocks of            *)
(* consecutive heights, or nothing, or raises.                             *)
(***************************************************************************)
\* line 31: queue.Queue(maxsize=10)
QUEUE_MAXSIZE == 10
\* line 94: insertion attempts per block
MAX_ATTEMPTS == 5
\* blocks the block source yields in one behaviour
MaxSource == 12

\* line 70: the producer holds back from this queue size on
QueueThrottleNone == QUEUE_MAXSIZE + 1
QUEUE_THROTTLE == 8

WaitSection == {"throttle_wait", "error_wait", "none_wait"}

\* lines 68, 72, 80, 86, 94, 101: what the producer thread reads from
\* stopped_event, by is_set() or by wait(timeout=0.2)
StopSignalMissed(stopped) == FALSE
StopSignalled(stopped) == stopped

\* line 68: "while not stopped_event.is_set()"
ProducerTop ==
    /\ ppc = "top"
    /\ ppc' = IF StopSignalled(stopped_event) THEN "exited" ELSE "size"
    /\ UNCHANGED <<prefeteched_block, stopped_event, pblock, attempt_count,
                   cpc, spc, source_next, obtained, delivered>>
    /\ UNCHANGED last_return
    /\ UNCHANGED pvars
    /\ UNCHANGED svars
    /\ UNCHANGED fnvars

\* line 70: "if self.prefeteched_block.qsize() >= 8"
ThrottledAbove(qsize) == qsize > QUEUE_THROTTLE
Throttled(qsize) == qsize >= QUEUE_THROTTLE

\* lines 70-74: the queue-size check
ProducerSize ==
    /\ ppc = "size"
    /\ ppc' = IF Throttled(Len(prefeteched_block))
              THEN "throttle_wait" ELSE "fetch"
    /\ UNCHANGED <<prefeteched_block, stopped_event, pblock, attempt_count,
                   cpc, spc, source_next, obtained, delivered>>
    /\ UNCHANGED last_return
    /\ UNCHANGED pvars
    /\ UNCHANGED svars
    /\ UNCHANGED fnvars

\* lines 72, 80, 86: "if stopped_event.wait(timeout=0.2): break; continue"
ProducerWait ==
    /\ ppc \in WaitSection
    /\ ppc' = IF StopSignalled(stopped_event) THEN "exited" ELSE "top"
    /\ UNCHANGED <<prefeteched_block, stopped_event, pblock, attempt_count,
                   cpc, spc, source_next, obtained, delivered>>
    /\ UNCHANGED last_return
    /\ UNCHANGED pvars
    /\ UNCHANGED svars
    /\ UNCHANGED fnvars

\* lines 77-90: get_block_non_blocking() raises, returns None or a block
ProducerFetch ==
    /\ ppc = "fetch"
    /\ \E outcome \in {"error", "none", "block"} :
         CASE outcome = "error" ->
                /\ ppc' = "error_wait"
                /\ UNCHANGED <<pblock, attempt_count, source_next, obtained>>
           [] outcome = "none" ->
                /\ ppc' = "none_wait"
                /\ UNCHANGED <<pblock, attempt_count, source_next, obtained>>
           [] OTHER ->
                /\ source_next <= MaxSource
                /\ pblock' = source_next
                /\ source_next' = source_next + 1
                /\ obtained' = Append(obtained, source_next)
                /\ attempt_count' = 0
                /\ ppc' = "put"
    /\ UNCHANGED <<prefeteched_block, stopped_event, cpc, spc, delivered>>
    /\ UNCHANGED last_return
    /\ UNCHANGED pvars
    /\ UNCHANGED svars
    /\ UNCHANGED fnvars

\* lines 94, 101-102: "while not stopped_event.is_set() and attempt_count
\* < 5", entered from the fetch or after a failed insertion; after a
\* failed insertion "if stopped_event.wait(timeout=0.2): break" comes first
ProducerPutLoop ==
    /\ ppc \in {"put", "put_wait"}
    /\ ppc' = IF ~StopSignalled(stopped_event) /\ attempt_count < MAX_ATTEMPTS
              THEN "putting" ELSE "top"
    /\ UNCHANGED <<prefeteched_block, stopped_event, pblock, attempt_count,
                   cpc, spc, source_next, obtained, delivered>>
    /\ UNCHANGED last_return
    /\ UNCHANGED pvars
    /\ UNCHANGED svars
    /\ UNCHANGED fnvars

\* lines 95-100: put(block, timeout=0.5) succeeds while there is room and
\* raises queue.Full when the queue stayed full
ProducerPut ==
    /\ ppc = "putting"
    /\ IF Len(prefeteched_block) < QUEUE_MAXSIZE
       THEN /\ prefeteched_block' = Append(prefeteched_block, pblock)
            /\ pblock' = 0
            /\ ppc' = "top"
            /\ UNCHANGED attempt_count
       ELSE /\ attempt_count' = attempt_count + 1
            /\ ppc' = "put_wait"
            /\ UNCHANGED <<prefeteched_block, pblock>>
    /\ UNCHANGED <<stopped_event, cpc, spc, source_next, obtained, delivered>>
    /\ UNCHANGED last_return
    /\ UNCHANGED pvars
    /\ UNCHANGED svars
    /\ UNCHANGED fnvars

\* line 53: "if self.stopped_event.is_set()"
StopNotSeen(stopped) == FALSE
StopSeen(stopped) == stopped

\* lines 53-54: get_next_block returns None at once when stopped
ConsumerCheck ==
    /\ cpc = "idle"
    /\ IF StopSeen(stopped_event)
       THEN cpc' = "idle" /\ last_return' = "stopped"
       ELSE cpc' = "get" /\ UNCHANGED last_return
    /\ UNCHANGED <<prefeteched_block, stopped_event, ppc, pblock,
                   attempt_count, spc, source_next, obtained, delivered>>
    /\ UNCHANGED pvars
    /\ UNCHANGED svars
    /\ UNCHANGED fnvars

\* line 57: the block Queue.get hands out, and what it leaves
QueueGetLast(q) == [item |-> q[Len(q)], rest |-> SubSeq(q, 1, Len(q) - 1)]
QueueGet(q) == [item |-> Head(q), rest |-> Tail(q)]

\* lines 56-59: get(timeout=timeout) returns the oldest block, or the call
\* returns None when the queue stayed empty
ConsumerGet ==
    /\ cpc = "get"
    /\ IF prefeteched_block # <<>>
       THEN /\ delivered' = Append(delivered, QueueGet(prefeteched_block).item)
            /\ prefeteched_block' = QueueGet(prefeteched_block).rest
            /\ last_return' = "block"
       ELSE /\ last_return' = "empty"
            /\ UNCHANGED <<delivered, prefeteched_block>>
    /\ cpc' = "idle"
    /\ UNCHANGED <<stopped_event, ppc, pblock, attempt_count, spc,
                   source_next, obtained>>
    /\ UNCHANGED pvars
    /\ UNCHANGED svars
    /\ UNCHANGED fnvars

\* lines 106-116: stop() sets the signal and stops the indexer
StopSignal ==
    /\ spc = "idle"
    /\ stopped_event' = TRUE
    /\ spc' = "join"
    /\ UNCHANGED <<prefeteched_block, ppc, pblock, attempt_count, cpc,
                   source_next, obtained, delivered>>
    /\ UNCHANGED last_return
    /\ UNCHANGED pvars
    /\ UNCHANGED svars
    /\ UNCHANGED fnvars

\* lines 118-128: join the producer for at most 5 seconds; the join returns
\* when the thread has ended or when the time is up
StopJoin ==
    /\ spc = "join"
    /\ spc' = "drain"
    /\ UNCHANGED <<prefeteched_block, stopped_event, ppc, pblock,
                   attempt_count, cpc, source_next, obtained, delivered>>
    /\ UNCHANGED last_return
    /\ UNCHANGED pvars
    /\ UNCHANGED svars
    /\ UNCHANGED fnvars

\* lines 131-135: get_nowait() until queue.Empty
StopDrain ==
    /\ spc = "drain"
    /\ IF prefeteched_block # <<>>
       THEN /\ prefeteched_block' = Tail(prefeteched_block)
            /\ UNCHANGED spc
       ELSE /\ spc' = "returned"
            /\ UNCHANGED prefeteched_block
    /\ UNCHANGED <<stopped_event, ppc, pblock, attempt_count, cpc,
                   source_next, obtained, delivered>>
    /\ UNCHANGED last_return
    /\ UNCHANGED pvars
    /\ UNCHANGED svars
    /\ UNCHANGED fnvars

ProducerNext ==
    \/ ProducerTop
    \/ ProducerSize
    \/ ProducerWait
    \/ ProducerFetch
    \/ ProducerPutLoop
    \/ ProducerPut

NextFetch ==
    \/ ProducerNext
    \/ ConsumerCheck
    \/ ConsumerGet
    \/ StopSignal
    \/ StopJoin
    \/ StopDrain

\* an RSFetcher, its producer thread, a consumer and one call of stop()
InitFetch == InitWith("any")
SpecFetch == InitFetch /\ [][NextFetch]_vars

\* the same with the producer thread scheduled fairly
SpecFetchFair == SpecFetch /\ WF_vars(ProducerNext)

\* the same with the producer thread and the thread in stop() scheduled
\* fairly: every call they make returns (the waits, put and join have
\* timeouts; the block source is taken to return)
SpecFetchStop ==
    SpecFetch /\ WF_vars(ProducerNext) /\ WF_vars(StopJoin \/ StopDrain)

(***************************************************************************)
(* protocol.py: calls of the pure functions on arguments of their own.     *)
(***************************************************************************)
\* values and output values run from 0 to these, besides the ones below
MaxValue == 12
MaxOutputValue == 2
\* the longest list of output values
MaxOutputs == 3
\* zero counts run from 0 to this
MaxZeroCount == 12

\* values of the size of the rewards, and the value of the design's example
DistributionValues == (0..MaxValue) \cup {100, MAX_REWARD, MAX_REWARD + 6250000}
OutputValues == (0..MaxOutputValue) \cup {7, 300, 700}

OutputLists ==
    UNION {[1..n -> OutputValues] : n \in 0..MaxOutputs}

\* a call calculate_distribution(value, output_values)
InitDistribution ==
    /\ Constructed("any")
    /\ RewardIdle
    /\ MovementsIdle
    /\ UtxoIdle
    /\ QueriesConstructed
    /\ d_pc = "called"
    /\ d_value \in DistributionValues
    /\ d_outputs \in OutputLists
    /\ d_result = <<>>

\* lines 36-50: the call returns
Distribute ==
    /\ d_pc = "called"
    /\ d_result' = calculate_distribution(d_value, d_outputs)
    /\ d_pc' = "returned"
    /\ UNCHANGED <<d_value, d_outputs, r_pc, r_zero, r_max, r_result>>
    /\ UNCHANGED <<g_pc, g_tx, g_quantity, g_result, g_calls>>
    /\ UNCHANGED <<pvars, fvars, svars, uvars, qvars>>

SpecDistribution == InitDistribution /\ [][Distribute]_vars

\* a call calculate_reward(zero_count, max_zero_count); max_zero_count is
\* the greatest zero_count of the block, so it is not below a zero_count
\* that reaches the power of line 21
InitReward ==
    /\ Constructed("any")
    /\ DistributionIdle
    /\ MovementsIdle
    /\ UtxoIdle
    /\ QueriesConstructed
    /\ r_pc = "called"
    /\ r_zero \in 0..MaxZeroCount
    /\ r_max \in 0..MaxZeroCount
    /\ r_zero >= MIN_ZERO_COUNT => r_max >= r_zero
    /\ r_result = 0

\* lines 19-22: the call returns
Reward ==
    /\ r_pc = "called"
    /\ r_result' = calculate_reward(r_zero, r_max)
    /\ r_pc' = "returned"
    /\ UNCHANGED <<r_zero, r_max, d_pc, d_value, d_outputs, d_result>>
    /\ UNCHANGED <<g_pc, g_tx, g_quantity, g_result, g_calls>>
    /\ UNCHANGED <<pvars, fvars, svars, uvars, qvars>>

SpecReward == InitReward /\ [][Reward]_vars

\* quantities run from 0 to this, besides a whole reward
MaxQuantity == 3

Quantities == (0..MaxQuantity) \cup {MAX_REWARD}

\* the outputs a transaction can have at position i: data-carrying, or of a
\* value; the output at position i has utxo id i
OutputsAt(i) ==
    {VoutData(i)} \cup {Vout(v, i) : v \in (0..MaxOutputValue) \cup {300, 700}}

VoutLists ==
    UNION {{vs \in [1..n -> UNION {OutputsAt(i) : i \in 1..n}] :
               \A i \in 1..n : vs[i] \in OutputsAt(i)} : n \in 0..MaxOutputs}

\* process_block_unified lines 103-109: the output values handed to
\* generate_movements, the last one dropped when there are several
OutputValuesOf(tx) ==
    LET values == [i \in 1..Len(ValidOutputs(tx)) |-> ValidOutputs(tx)[i].value]
    IN  IF Len(values) > 1 THEN SubSeq(values, 1, Len(values) - 1) ELSE values

\* a call generate_movements(tx, quantity, output_values) as line 143 makes it
InitMovements ==
    /\ Constructed("any")
    /\ DistributionIdle
    /\ RewardIdle
    /\ UtxoIdle
    /\ QueriesConstructed
    /\ g_pc = "called"
    /\ g_tx \in {[tx_id |-> "g", zero_count |-> 0, vin |-> <<Vin(NumUtxo)>>,
                   vout |-> vs] : vs \in VoutLists}
    /\ g_quantity \in Quantities
    /\ g_result = <<>>
    /\ g_calls = <<>>

\* lines 65-82: the call returns
Move ==
    /\ g_pc = "called"
    /\ g_result' = generate_movements(g_tx, g_quantity, OutputValuesOf(g_tx))
    /\ g_pc' = "returned"
    /\ UNCHANGED <<g_tx, g_quantity, g_calls>>
    /\ UNCHANGED <<d_pc, d_value, d_outputs, d_result, r_pc, r_zero, r_max, r_result>>
    /\ UNCHANGED <<pvars, fvars, svars, uvars, qvars>>

\* process_block_unified lines 144-146: the loop over the list returned
ApplyMovements ==
    /\ g_pc = "returned"
    /\ g_calls' = AddMovements([st |-> start_block(FreshStore, 1), calls |-> <<>>],
                               g_result).calls
    /\ g_pc' = "applied"
    /\ UNCHANGED <<g_tx, g_quantity, g_result>>
    /\ UNCHANGED <<d_pc, d_value, d_outputs, d_result, r_pc, r_zero, r_max, r_result>>
    /\ UNCHANGED <<pvars, fvars, svars, uvars, qvars>>

NextMovements == Move \/ ApplyMovements

SpecMovements == InitMovements /\ [][NextMovements]_vars

protocolvars == <<d_pc, d_value, d_outputs, d_result, r_pc, r_zero, r_max,
                  r_result, g_pc, g_tx, g_quantity, g_result, g_calls>>

(***************************************************************************)
(* The utxo id.  A transaction id in hex is a sequence of hex digits       *)
(* (0..15), bytes are 0..255.  A digest is the pair of the hash function   *)
(* and the bytes hashed: two digests are equal when the same function was  *)
(* applied to the same bytes (collisions are left out).                    *)
(***************************************************************************)
\* bytes of a transaction id (32 on the chain)
TxidBytes == 2
\* output indices run from 0 to this
MaxIndex == 2

HexDigits == {0, 1, 15}
HexTxids == [1..(2 * TxidBytes) -> HexDigits]

\* bytes.fromhex
fromhex(hex) == [i \in 1..(Len(hex) \div 2) |-> 16 * hex[2 * i - 1] + hex[2 * i]]

\* be[::-1]
Reversed(bs) == [i \in 1..Len(bs) |-> bs[Len(bs) + 1 - i]]

\* n.to_bytes(width, "little")
RECURSIVE to_bytes_little(_, _)
to_bytes_little(n, width) ==
    IF width = 0 THEN <<>>
    ELSE <<n % 256>> \o to_bytes_little(n \div 256, width - 1)

\* hashlib.sha256(data).digest()[:8]
sha256_first8(data) == [alg |-> "sha256[:8]", input |-> data]

\* xxhash.xxh3_64_intdigest(data).to_bytes(8, "little")
xxh3_64_little(data) == [alg |-> "xxh3_64", input |-> data]

\* fetcher.py line 246: bytes of the output index in make_utxo_id
MAKE_UTXO_ID_INDEX_BYTES == 4
\* queries.py line 14: bytes of the number in hash_string_and_number
HASH_NUMBER_BYTES == 8

\* fetcher.py lines 245-248, adapt_auxpow_block
make_utxo_id(txid_bytes, n) ==
    sha256_first8(txid_bytes \o to_bytes_little(n, MAKE_UTXO_ID_INDEX_BYTES))

\* queries.py lines 12-16
hash_string_and_number(input_bytes, input_num) ==
    xxh3_64_little(input_bytes \o to_bytes_little(input_num, HASH_NUMBER_BYTES))

\* queries.py lines 115-125
utxo_to_utxo_id(txid_hex, n) ==
    hash_string_and_number(Reversed(fromhex(txid_hex)), n)

\* an output (txid, n) of a block with auxpow
InitUtxo ==
    /\ Constructed("any")
    /\ DistributionIdle /\ RewardIdle /\ MovementsIdle
    /\ QueriesConstructed
    /\ u_txid \in HexTxids
    /\ u_n \in 0..MaxIndex
    /\ u_vout_id = NoId
    /\ u_vin_id = NoId
    /\ u_query_id = NoId

\* fetcher.py lines 236-240 and 249-251: the block of the transaction is
\* adapted; tx_id = bytes.fromhex(txid), utxo_id of vout n
AdaptVout ==
    /\ u_vout_id = NoId
    /\ u_vout_id' = make_utxo_id(fromhex(u_txid), u_n)
    /\ UNCHANGED <<u_txid, u_n, u_vin_id, u_query_id>>
    /\ UNCHANGED <<pvars, fvars, svars, protocolvars, qvars>>

\* fetcher.py lines 252-257: a later block is adapted that has an input
\* with txid and vout of that output
AdaptVin ==
    /\ u_vout_id # NoId
    /\ u_vin_id = NoId
    /\ u_vin_id' = make_utxo_id(fromhex(u_txid), u_n)
    /\ UNCHANGED <<u_txid, u_n, u_vout_id, u_query_id>>
    /\ UNCHANGED <<pvars, fvars, svars, protocolvars, qvars>>

\* queries.py line 204: the balance lookup for the output
LookupUtxo ==
    /\ u_vout_id # NoId
    /\ u_query_id = NoId
    /\ u_query_id' = utxo_to_utxo_id(u_txid, u_n)
    /\ UNCHANGED <<u_txid, u_n, u_vout_id, u_vin_id>>
    /\ UNCHANGED <<pvars, fvars, svars, protocolvars, qvars>>

NextUtxo == AdaptVout \/ AdaptVin \/ LookupUtxo

SpecUtxo == InitUtxo /\ [][NextUtxo]_vars

(***************************************************************************)
(* queries.py: Rb1tsQueries.get_latest_nicehashes and the index database.  *)
(* The tables are written by the parser's store: blocks is an append-only  *)
(* log of the heights ingested, nicehashes holds the reward events.        *)
(***************************************************************************)
\* heights ingested run from 1 to this
MaxDbHeight == 3
\* calls of get_latest_nicehashes in one behaviour
MaxQueries == 3
\* line 226: limit=50
DEFAULT_LIMIT == 50

\* lines 239-246: SELECT MAX(height) FROM blocks, 0 when there is none
RECURSIVE MaxHeightOf(_)
MaxHeightOf(heights) ==
    IF heights = <<>> THEN 0
    ELSE LET m == MaxHeightOf(Tail(heights))
         IN  IF Head(heights) > m THEN Head(heights) ELSE m

\* lines 256-263: ORDER BY height DESC (heights of the rows are distinct)
RECURSIVE OrderByHeightDesc(_)
OrderByHeightDesc(rows) ==
    IF rows = <<>> THEN <<>>
    ELSE LET i == CHOOSE j \in 1..Len(rows) :
                     \A k \in 1..Len(rows) : rows[k].height <= rows[j].height
         IN  <<rows[i]>> \o OrderByHeightDesc(SubSeq(rows, 1, i - 1)
                                               \o SubSeq(rows, i + 1, Len(rows)))

\* lines 254-271: the rows selected, LIMIT applied
SelectLatest(rows, limit) ==
    SubSeq(OrderByHeightDesc(rows), 1, Min(limit, Len(rows)))

\* the cache test with the comparison of the heights left out
CacheValidIgnoringHeight(cache, cache_height, current_max_height) ==
    cache.filled

\* lines 248-252: the cache is there and was filled at this max height
CacheValid(cache, cache_height, current_max_height) ==
    cache.filled /\ cache_height = current_max_height

InitQueries ==
    /\ Constructed("any")
    /\ DistributionIdle /\ RewardIdle /\ MovementsIdle
    /\ UtxoIdle
    /\ QueriesConstructed

\* the parser commits the next block: a row in blocks and, for a block
\* with a rewarded transaction, a row in nicehashes
IngestBlock ==
    /\ MaxHeightOf(db_blocks) < MaxDbHeight
    /\ db_blocks' = Append(db_blocks, MaxHeightOf(db_blocks) + 1)
    /\ \E nice \in BOOLEAN :
         db_nicehashes' =
             IF nice
             THEN Append(db_nicehashes,
                         [height |-> MaxHeightOf(db_blocks) + 1,
                          txid |-> "nice", reward |-> MAX_REWARD])
             ELSE db_nicehashes
    /\ q_changed' = TRUE
    /\ UNCHANGED <<latest_nicehashes_cache, latest_nicehashes_cache_block_height,
                   q_result, q_calls, q_reads>>
    /\ UNCHANGED <<pvars, fvars, svars, protocolvars, uvars>>

\* lines 226-278: get_latest_nicehashes()
get_latest_nicehashes ==
    /\ q_calls < MaxQueries
    /\ q_calls' = q_calls + 1
    /\ LET current_max_height == MaxHeightOf(db_blocks)
       IN  IF CacheValid(latest_nicehashes_cache,
                         latest_nicehashes_cache_block_height,
                         current_max_height)
           THEN /\ q_result' = latest_nicehashes_cache.list
                /\ UNCHANGED <<latest_nicehashes_cache,
                               latest_nicehashes_cache_block_height, q_reads,
                               q_changed>>
           ELSE LET nicehashes == SelectLatest(db_nicehashes, DEFAULT_LIMIT)
                IN  /\ q_reads' = q_reads + 1
                    /\ latest_nicehashes_cache' =
                           [filled |-> TRUE, list |-> nicehashes]
                    /\ latest_nicehashes_cache_block_height' = current_max_height
                    /\ q_changed' = FALSE
                    /\ q_result' = nicehashes
    /\ UNCHANGED <<db_blocks, db_nicehashes>>
    /\ UNCHANGED <<pvars, fvars, svars, protocolvars, uvars>>

NextQueries == IngestBlock \/ get_latest_nicehashes

SpecQueries == InitQueries /\ [][NextQueries]_vars

(***************************************************************************)
(* Properties of the ingestion loop.                                       *)
(***************************************************************************)
Rollbacks(cs) == SelectSeq(cs, LAMBDA c : c.op = "rollback_block")

\* rollback_block(from), rollback_block(from - 1), ..., rollback_block(to)
DescendingRollbacks(from, to) ==
    [i \in 1..(from - to + 1) |-> Call("rollback_block", from - i + 1, 0)]

\* C1: process_block_unified is only ever entered with a block whose
\* height is the cursor (as the rollbacks left it) plus one; the cursor
\* then becomes that height.
C1_ProcessAtNextHeight ==
    [][(pc # "process" /\ pc' = "process")
         => (block.height = current_height + 1
             /\ current_height' = current_height + 1)]_vars

\* a block is handed to process_block_unified after at least one rollback
C1_Witness ==
    pc = "process" /\ Len(calls) >= 1 /\ block.height = apply_cursor + 1

\* C2: a block more than one past the cursor ends the loop with no ledger
\* call made for it and the cursor where it was; the loop is not entered
\* again in that run.
C2_GapStopsIngestion ==
    error = "ahead"
      => /\ pc \in {"finally", "done"}
         /\ calls = <<>>
         /\ ~store.open
         /\ block.height > current_height + 1
         /\ current_height = recv_cursor

\* the run has ended on a height gap
C2_Witness == error = "ahead" /\ pc = "done" /\ received >= 2

\* C3: a block of height h <= cursor is preceded by rollback_block for
\* cursor, cursor - 1, ..., h, in that order and once each, the cursor
\* going down by one with each call; the block is then applied and the
\* cursor equals h.
C3_ReorgRollsBackInOrder ==
    /\ error # "assert"
    /\ (pc = "reorg" /\ block.height <= recv_cursor)
         => /\ current_height >= block.height - 1
            /\ calls = DescendingRollbacks(recv_cursor, current_height + 1)
    /\ (pc \in {"process", "tx", "after"} /\ block.height <= recv_cursor)
         => /\ Rollbacks(calls) = DescendingRollbacks(recv_cursor, block.height)
            /\ SubSeq(calls, 1, recv_cursor - block.height + 1) = Rollbacks(calls)
            /\ current_height = block.height
    /\ (pc = "after" /\ block.height <= recv_cursor)
         => store.last_indexed = block.height

\* a block one below the cursor has been applied after two rollbacks
C3_Witness ==
    /\ pc = "after"
    /\ block.height = recv_cursor - 1
    /\ Len(Rollbacks(calls)) = 2
    /\ calls[Len(calls)].op = "end_block"

\* C4 as stated: a block one below the cursor (height 50 at cursor 51)
\* costs exactly one rollback, of the cursor's height, and is applied as
\* the block at the old cursor's height.
C4_OneRollback ==
    (pc = "after" /\ block.height = recv_cursor - 1)
      => /\ Rollbacks(calls) = <<Call("rollback_block", recv_cursor, 0)>>
         /\ current_height = recv_cursor

\* C4 as the code has it: a block one below the cursor (height 50 at
\* cursor 51) costs two rollbacks, of the cursor's height and of the one
\* below (51, then 50), and is applied at its own height (50), the cursor
\* ending there.
C4_TwoRollbacks ==
    (pc = "after" /\ block.height = recv_cursor - 1)
      => /\ Rollbacks(calls) = <<Call("rollback_block", recv_cursor, 0),
                                 Call("rollback_block", recv_cursor - 1, 0)>>
         /\ SubSeq(calls, 1, 3) = Rollbacks(calls)
                                  \o <<Call("start_block", recv_cursor - 1, 0)>>
         /\ current_height = recv_cursor - 1
         /\ store.last_indexed = recv_cursor - 1

\* a block one below the cursor has been applied
C4_Witness ==
    pc = "after" /\ block.height = recv_cursor - 1 /\ received >= 2

\* C5: whenever no block is open, the balances of the ledger add up to the
\* rewards minted so far.
C5_Conservation ==
    ~store.open => SumBalances(store.balances) = store.supply

\* C6: rolling back the block applied last restores every balance and the
\* cursor to what they were before it was applied.
C6_RollbackIsInverse ==
    [][(/\ pc = "reorg"
        /\ Len(calls') = Len(calls) + 1
        /\ snaps # <<>>
        /\ snaps[Len(snaps)].height = current_height)
         => /\ store'.balances = snaps[Len(snaps)].balances
            /\ current_height' = snaps[Len(snaps)].cursor]_vars

\* of two applied blocks the second, which moved balances, has just been
\* rolled back
C6_Witness ==
    /\ pc = "reorg"
    /\ Len(calls) = 1
    /\ Len(snaps) = 1
    /\ Len(store.undo) = 1
    /\ received = 3
    /\ block.height = recv_cursor
    /\ store.balances[1] = MAX_REWARD

(***************************************************************************)
(* Resuming.  The uninterrupted run applies the canonical chain's blocks   *)
(* above START_HEIGHT one after the other to a fresh store.                *)
(***************************************************************************)
RECURSIVE ProcessAll(_, _, _)
ProcessAll(es, blk, i) ==
    IF i > Len(blk.tx) THEN es
    ELSE ProcessAll(ProcessTransaction(es, blk.tx[i], blk), blk, i + 1)

ApplyBlock(st, blk) ==
    end_block(ProcessAll([st |-> start_block(st, blk.height), calls |-> <<>>],
                         blk, 1).st)

RECURSIVE UninterruptedRun(_)
UninterruptedRun(h) ==
    IF h <= START_HEIGHT THEN FreshStore
    ELSE LET before == UninterruptedRun(h - 1)
         IN  \* the store before the block has no block open
             IF before.open THEN before
             ELSE ApplyBlock(before, MakeBlock(h, ChainBody(h)))

Committed(st) == [balances |-> st.balances, supply |-> st.supply,
                  last_indexed |-> st.last_indexed, undo |-> st.undo]

C10_FetchFailureAbsorbed ==
    error = "fetch" => pc \notin {"finally", "done"}

(***************************************************************************)
(* Properties of RSFetcher.                                                *)
(***************************************************************************)
\* the block the producer has fetched and not yet enqueued
Pending == IF pblock # 0 THEN <<pblock>> ELSE <<>>

\* C8: until stop() sets the signal, the blocks delivered, then those in
\* the queue, then the one the producer holds are the blocks obtained from
\* the source, in the order obtained: nothing lost, doubled or reordered;
\* the source yielding consecutive heights, those delivered are
\* consecutive.
C8_DeliveredInOrder ==
    ~stopped_event
      => /\ delivered \o prefeteched_block \o Pending = obtained
         /\ \A i \in 1..Len(delivered) : delivered[i] = i

\* blocks have been delivered while others wait in the queue and the
\* producer was held back by the full queue
C8_Witness ==
    /\ ~stopped_event
    /\ Len(delivered) >= 2
    /\ Len(prefeteched_block) = QUEUE_THROTTLE
    /\ ppc = "throttle_wait"

\* C9: the producer never goes on to fetch while it holds a block it has
\* not enqueued, an insertion never fails, and a block it holds is
\* enqueued unless shutdown is requested.
C9_NeverDropped ==
    /\ [](ppc \in {"size", "fetch"} \cup WaitSection => pblock = 0)
    /\ [](attempt_count = 0)
    /\ [](ppc = "exited" /\ pblock # 0 => stopped_event)
    /\ (pblock # 0 ~> (pblock = 0 \/ stopped_event))

\* the last block of the source has been enqueued behind others
C9_Witness ==
    /\ ~stopped_event
    /\ pblock = 0
    /\ Len(obtained) = MaxSource
    /\ Len(prefeteched_block) >= 2
    /\ prefeteched_block[Len(prefeteched_block)] = MaxSource

(***************************************************************************)
(* Properties of PurePythonFetcher.                                        *)
(***************************************************************************)
\* C11: a call of PurePythonFetcher.get_next_block that returns a block
\* returns the one at the fetcher's height plus one and moves the fetcher
\* up by exactly one; a call that returns absent or raises leaves the
\* fetcher where it was.
C11_FetcherNeverSkips ==
    [][(pc = "loop" /\ pc' # "loop" /\ ~shutdown_requested)
         => IF pc' = "check"
            THEN /\ block'.height = fetcher.height + 1
                 /\ fetcher'.height = fetcher.height + 1
            ELSE fetcher' = fetcher]_vars

\* after a failed fetch and a restart, and an absent result at the tip, the
\* fetcher stands at the tip of the chain
C11_Witness ==
    /\ fetcher.kind = "PP"
    /\ fetcher.height = ChainTip
    /\ none_count >= 1
    /\ pc = "loop"
    /\ "crash" \in interruptions

(***************************************************************************)
(* Properties of RSFetcher: backpressure and shutdown.                     *)
(***************************************************************************)
\* C12: from the queue-size check to the insertion the queue holds fewer
\* than QUEUE_THROTTLE blocks, so it never holds more than QUEUE_THROTTLE,
\* never reaches QUEUE_MAXSIZE, and no insertion finds it full.
C12_Backpressure ==
    /\ ppc \in {"fetch", "put", "putting", "put_wait"}
         => Len(prefeteched_block) < QUEUE_THROTTLE
    /\ Len(prefeteched_block) <= QUEUE_THROTTLE
    /\ Len(prefeteched_block) < QUEUE_MAXSIZE
    /\ attempt_count = 0
    /\ ppc # "put_wait"

\* the queue has filled to the throttle while the consumer was taking
\* blocks, and the producer is back at the size check
C12_Witness ==
    /\ Len(prefeteched_block) = QUEUE_THROTTLE
    /\ Len(delivered) >= 1
    /\ ppc = "size"
    /\ ~stopped_event

\* C13: with the stop signal set, a call of get_next_block that starts
\* returns absent at once, whatever the queue holds: nothing is delivered,
\* by that call or by any later one.
C13_AbsentAfterStop ==
    [][(stopped_event /\ cpc = "idle")
         => /\ cpc' = "idle"
            /\ delivered' = delivered
            /\ last_return' \in {last_return, "stopped"}]_vars

\* a call made after the signal has returned absent while the queue still
\* held blocks that were never delivered
C13_Witness ==
    /\ stopped_event
    /\ last_return = "stopped"
    /\ Len(prefeteched_block) >= 2
    /\ Len(delivered) >= 1
    /\ spc = "join"

\* C14: once the stop signal is set the producer thread leaves
\* prefetch_block, wherever it stood, and stop() returns, even when the
\* join gave up with the producer still running.
C14_StopTerminates ==
    /\ (stopped_event ~> ppc = "exited")
    /\ (spc = "join" ~> spc = "returned")
    /\ [](spc \in {"join", "drain"} => ENABLED (StopJoin \/ StopDrain))

\* stop() has returned while the producer thread, which was waiting on
\* the throttle, had not yet left
C14_Witness ==
    /\ spc = "returned"
    /\ ppc = "throttle_wait"
    /\ stopped_event

C16_FatalExitsNonZero ==
    (pc = "done" /\ error \in {"ahead", "fetch", "assert"})
      => exit_status(error) # 0

\* C17: once parse() has set its starting cursor, a step changes the
\* cursor only by +1, on the way into process_block_unified, or by -1,
\* together with one rollback_block of the cursor's height in the
\* reorganisation loop.
C17_CursorMovesByOne ==
    [][(pc # "start" /\ current_height' # current_height)
         => \/ /\ current_height' = current_height + 1
               /\ pc = "reorg" /\ pc' = "process"
               /\ block.height = current_height'
               /\ calls' = calls
            \/ /\ current_height' = current_height - 1
               /\ pc = "reorg" /\ pc' = "reorg"
               /\ block.height <= current_height
               /\ calls' = Append(calls,
                                  Call("rollback_block", current_height, 0))]_vars

\* the cursor has gone down by one rollback and up again by the block
\* that replaces the one rolled back
C17_Witness ==
    /\ pc = "process"
    /\ Len(Rollbacks(calls)) = 1
    /\ block.height = recv_cursor
    /\ current_height = recv_cursor
    /\ received >= 2

FloorShare(value, output_value, total_output) ==
    (value \div total_output) * output_value
      + ((value % total_output) * output_value) \div total_output

\* C19: when the output values add up to more than 0, every element after
\* the first is floor(value * output_value / total), and the first is its
\* floor plus what the floors leave of value.
C19_FloorAndRemainder ==
    (d_pc = "returned" /\ SumSeq(d_outputs) > 0)
      => LET total == SumSeq(d_outputs)
             floors == [i \in 1..Len(d_outputs) |->
                          FloorShare(d_value, d_outputs[i], total)]
         IN  /\ \A i \in 2..Len(d_result) : d_result[i] = floors[i]
             /\ d_result[1] = floors[1] + (d_value - SumSeq(floors))

\* C20: calculate_reward returns 0 for every zero_count below
\* MIN_ZERO_COUNT, whatever max_zero_count is.
C20_NoRewardBelowMinimum ==
    (r_pc = "returned" /\ r_zero < MIN_ZERO_COUNT) => r_result = 0

\* the call with the largest zero_count below the minimum, in a block
\* whose best transaction has as many zeros, has returned 0
C20_Witness ==
    /\ r_pc = "returned"
    /\ r_zero = MIN_ZERO_COUNT - 1
    /\ r_max = r_zero
    /\ r_result = 0

\* floor(x / 16^k), by k integer divisions
RECURSIVE FloorDiv16(_, _)
FloorDiv16(x, k) == IF k = 0 THEN x ELSE FloorDiv16(x \div 16, k - 1)

\* C21: for MIN_ZERO_COUNT <= zero_count <= max_zero_count the reward is
\* floor(MAX_REWARD / 16^(max_zero_count - zero_count)): MAX_REWARD when
\* the two are equal, and for the same max_zero_count never more than the
\* reward of a zero_count one higher.
C21_RewardFormula ==
    (r_pc = "returned" /\ r_zero >= MIN_ZERO_COUNT /\ r_max >= r_zero)
      => /\ r_result = FloorDiv16(MAX_REWARD, r_max - r_zero)
         /\ r_zero = r_max => r_result = MAX_REWARD
         /\ r_zero < r_max
              => r_result <= calculate_reward(r_zero + 1, r_max)
         /\ r_zero > MIN_ZERO_COUNT
              => calculate_reward(r_zero - 1, r_max) <= r_result

\* three zeros short of the block's best, the reward is
\* floor(100000000 / 4096), a quotient with a fraction
C21_Witness ==
    /\ r_pc = "returned"
    /\ r_zero = MIN_ZERO_COUNT + 1
    /\ r_max = r_zero + 3
    /\ r_result = 24414
    /\ r_result * 4096 < MAX_REWARD

(***************************************************************************)
(* Properties of generate_movements.                                       *)
(***************************************************************************)
\* the eligible outputs generate_movements pairs with the distribution
KeptOutputs(tx) ==
    LET valid == ValidOutputs(tx)
    IN  IF Len(valid) > 1 THEN SubSeq(valid, 1, Len(valid) - 1) ELSE valid

\* C22: generate_movements pairs the i-th amount of the distribution with
\* the utxo id of the i-th eligible output, the last eligible output left
\* out when there are several; the last one is then never credited, and with
\* exactly two eligible outputs the first one receives the whole quantity.
C22_PairingFirstTakesAll ==
    g_pc = "returned" =>
        LET valid == ValidOutputs(g_tx)
            kept  == KeptOutputs(g_tx)
            dist  == calculate_distribution(g_quantity, OutputValuesOf(g_tx))
        IN  /\ Len(g_result) = Len(kept)
            /\ \A i \in 1..Len(kept) :
                   /\ g_result[i].utxo_id = kept[i].utxo_id
                   /\ g_result[i].quantity = dist[i]
            /\ Len(valid) > 1 =>
                   \A i \in 1..Len(g_result) :
                       g_result[i].utxo_id # valid[Len(valid)].utxo_id
            /\ Len(valid) = 2 => g_result[1].quantity = g_quantity

\* C23: no movement in the list generate_movements returns has amount 0.
C23_NoZeroMovementReturned ==
    g_pc = "returned" =>
        \A i \in 1..Len(g_result) : g_result[i].quantity # 0

\* C23, amended: generate_movements returns one movement for every kept
\* output, amounts of 0 included; process_block_unified passes over these,
\* so that add_balance is called for exactly the movements of a positive
\* amount, in their order.
C23_ZeroMovementsNotApplied ==
    g_pc = "applied" =>
        /\ Len(g_result) = Len(KeptOutputs(g_tx))
        /\ \A i \in 1..Len(g_calls) :
               g_calls[i].op = "add_balance" /\ g_calls[i].b > 0
        /\ g_calls = [i \in 1..Len(SelectSeq(g_result, LAMBDA mv : mv.quantity > 0)) |->
                         Call("add_balance",
                              SelectSeq(g_result, LAMBDA mv : mv.quantity > 0)[i].utxo_id,
                              SelectSeq(g_result, LAMBDA mv : mv.quantity > 0)[i].quantity)]

C23_Witness ==
    /\ g_pc = "applied"
    /\ g_quantity = 3
    /\ Len(g_result) = 2
    /\ g_result[1].quantity = 3
    /\ g_result[2].quantity = 0
    /\ g_calls = <<Call("add_balance", g_result[1].utxo_id, 3)>>

(***************************************************************************)
(* Properties of process_block_unified.                                    *)
(***************************************************************************)
\* C24: for a transaction whose first input is the coinbase marker, or that
\* has no non-OP_RETURN output, process_block_unified makes no ledger call:
\* the step over it leaves the call log and the store (balances, supply)
\* as they were.
C24_SkippedTransactionNoCall ==
    [][(/\ pc = "tx"
        /\ txi <= Len(block.tx)
        /\ txi' = txi + 1
        /\ \/ block.tx[txi].vin[1].coinbase
           \/ ValidOutputs(block.tx[txi]) = <<>>)
       => (calls' = calls /\ store' = store)]_vars

\* a coinbase transaction with a rewardable zero_count has been passed over
C24_Witness ==
    /\ pc = "tx"
    /\ txi = 2
    /\ block.tx[1].vin[1].coinbase
    /\ block.tx[1].zero_count >= MIN_ZERO_COUNT
    /\ calls # <<>>
    /\ calls[Len(calls)].op = "start_block"
    /\ store.w_supply = store.supply

\* the ledger calls from the last start_block on
LastBlockCalls ==
    LET starts == {i \in 1..Len(calls) : calls[i].op = "start_block"}
    IN  IF starts = {} THEN <<>>
        ELSE SubSeq(calls, CHOOSE i \in starts : \A j \in starts : j <= i,
                    Len(calls))

\* where a reader of the calls cs[i..] stands who began in mode: "start"
\* before the block, "block" inside it and outside a transaction, "pop" in
\* a transaction before its first add_balance, "add" after it, "done" after
\* end_block, "bad" once a call came out of place
RECURSIVE Brackets(_, _, _)
Brackets(cs, i, mode) ==
    IF i > Len(cs) THEN mode
    ELSE LET op == cs[i].op
             next ==
                 CASE mode = "start" /\ op = "start_block" -> "block"
                   [] mode = "block" /\ op = "start_transaction" -> "pop"
                   [] mode = "pop" /\ op = "pop_balance" -> "pop"
                   [] mode \in {"pop", "add"} /\ op = "add_balance" -> "add"
                   [] mode \in {"pop", "add"} /\ op = "end_transaction" -> "block"
                   [] mode = "block" /\ op = "end_block" -> "done"
                   [] OTHER -> "bad"
         IN  IF next = "bad" THEN "bad" ELSE Brackets(cs, i + 1, next)

\* C25: process_block_unified calls start_block once, before any other
\* ledger call of the block, and end_block once, after all of them; every
\* pop_balance and add_balance lies between a start_transaction and its
\* end_transaction, the brackets are not nested and none is left open, and
\* inside a transaction every pop_balance comes before every add_balance.
C25_CallBrackets ==
    /\ [][(pc = "process" /\ pc' # "process")
            => calls' = Append(calls, Call("start_block", block.height, 0))]_vars
    /\ [](pc = "tx" => Brackets(LastBlockCalls, 1, "start") = "block")
    /\ [](pc = "after" => Brackets(LastBlockCalls, 1, "start") = "done")

\* a block is through whose transaction emptied an input and credited
\* several outputs
C25_Witness ==
    /\ pc = "after"
    /\ calls[Len(calls)].op = "end_block"
    /\ \E i \in 1..(Len(calls) - 4) :
          /\ calls[i].op = "start_transaction"
          /\ calls[i + 1].op = "pop_balance"
          /\ calls[i + 2].op = "add_balance"
          /\ calls[i + 3].op = "add_balance"
          /\ calls[i + 4].op = "add_balance"

(***************************************************************************)
(* Properties of the start of a run.                                       *)
(***************************************************************************)
\* C26: when a run starts, the cursor is the persisted last indexed height
\* if there is one, and START_HEIGHT otherwise; the first block the run
\* applies is the one at that cursor plus one.
C26_StartupCursor ==
    /\ [][(pc = "start" /\ pc' = "loop")
            => /\ store.last_indexed > 0 => current_height' = store.last_indexed
               /\ store.last_indexed = 0 => current_height' = START_HEIGHT]_vars
    /\ [][(calls = <<>> /\ calls' # <<>>)
            => /\ store.last_indexed > 0
                    => calls' = <<Call("start_block", store.last_indexed + 1, 0)>>
               /\ store.last_indexed = 0
                    => calls' = <<Call("start_block", START_HEIGHT + 1, 0)>>]_vars

\* a run started on a store that holds blocks has opened its first block,
\* the one after the last indexed
C26_Witness ==
    /\ pc = "tx"
    /\ interruptions # {}
    /\ store.last_indexed > START_HEIGHT
    /\ calls = <<Call("start_block", store.last_indexed + 1, 0)>>
    /\ current_height = store.last_indexed + 1

(***************************************************************************)
(* Properties of the shutdown of the ingestion loop.                       *)
(***************************************************************************)
\* C30: a shutdown request ends the loop only at the loop's top, after an
\* absent result or after an applied block, never from inside a block; so
\* when the loop has ended because of the request no block is open, the
\* last block started has its end_block, and the cursor is the height of
\* that block, which is the last indexed height.
C30_ShutdownBetweenBlocks ==
    /\ [][(pc # "finally" /\ pc' = "finally" /\ error' = "none")
            => (shutdown_requested /\ pc \in {"loop", "absent", "after"})]_vars
    /\ [][(pc \in {"process", "tx"} /\ pc' # pc) => pc' \in {"tx", "after"}]_vars
    /\ []((pc \in {"finally", "done"} /\ error = "none")
            => /\ ~store.open
               /\ LastBlockCalls # <<>>
                    => /\ Brackets(LastBlockCalls, 1, "start") = "done"
                       /\ current_height = LastBlockCalls[1].a
                       /\ store.last_indexed = current_height)

\* the loop has ended on a request, right after the end_block of the first
\* block applied
C30_Witness ==
    /\ pc = "finally"
    /\ error = "none"
    /\ shutdown_requested
    /\ none_count = 0
    /\ block.height = current_height
    /\ calls # <<>>
    /\ calls[Len(calls)].op = "end_block"
    /\ store.last_indexed = START_HEIGHT + 1

(***************************************************************************)
(* Properties of the utxo id.                                              *)
(***************************************************************************)
\* C27: the utxo id is one function of (txid, n) wherever it is computed:
\* the id adapt_auxpow_block gives an output is the id it gives a later
\* input that refers to the output, and is the id utxo_to_utxo_id of the
\* query layer computes for the same txid and n.
C27_OneUtxoIdFunction ==
    /\ u_vin_id # NoId => u_vin_id = u_vout_id
    /\ u_query_id # NoId => u_query_id = u_vout_id

(***************************************************************************)
(* Properties of the query layer's cache.                                  *)
(***************************************************************************)
\* C28: get_latest_nicehashes answers from its cache only when the cache
\* is filled and the max height of table blocks is the height the cache
\* was filled at; otherwise it reads table nicehashes again and replaces
\* the cache and its height.  So no answer comes from the cache after the
\* max height has changed, and every answer is what the table holds.
C28_CacheKeyedByHeight ==
    /\ [][q_calls' = q_calls + 1
            => IF /\ latest_nicehashes_cache.filled
                  /\ latest_nicehashes_cache_block_height = MaxHeightOf(db_blocks)
               THEN /\ q_reads' = q_reads
                    /\ q_result' = latest_nicehashes_cache.list
                    /\ latest_nicehashes_cache' = latest_nicehashes_cache
                    /\ latest_nicehashes_cache_block_height'
                         = latest_nicehashes_cache_block_height
               ELSE /\ q_reads' = q_reads + 1
                    /\ q_result' = SelectLatest(db_nicehashes, DEFAULT_LIMIT)
                    /\ latest_nicehashes_cache' = [filled |-> TRUE, list |-> q_result']
                    /\ latest_nicehashes_cache_block_height'
                         = MaxHeightOf(db_blocks)]_vars
    /\ [][(q_calls' = q_calls + 1 /\ q_reads' = q_reads) => ~q_changed]_vars
    /\ [][q_calls' = q_calls + 1
            => q_result' = SelectLatest(db_nicehashes, DEFAULT_LIMIT)]_vars

\* the cache was filled, answered a call, and was filled again after a
\* block with a reward event came in
C28_Witness ==
    /\ q_calls = 3
    /\ q_reads = 2
    /\ ~q_changed
    /\ latest_nicehashes_cache_block_height = 2
    /\ q_result # <<>>
    /\ q_result[1].height = 2
    /\ q_result = latest_nicehashes_cache.list

(***************************************************************************)
(* Properties of RSFetcher.stop().                                         *)
(***************************************************************************)
\* C31: when stop() has returned the prefetch buffer is empty and stays
\* empty, however stop() and the producer thread interleave.
C31_BufferStaysEmpty ==
    spc = "returned" => prefeteched_block = <<>>

\* C31, amended: when stop() has returned the buffer holds at most one
\* block; it can only grow by the insertion of a producer that had passed
\* the test of line 94 before the signal was set and outlived the join,
\* and a call of get_next_block begun after the return delivers nothing.
C31_AtMostOneLeftBehind ==
    /\ [](spc = "returned" => Len(prefeteched_block) <= 1)
    /\ [][(spc = "returned" /\ Len(prefeteched_block') > Len(prefeteched_block))
            => (ppc = "putting" /\ prefeteched_block = <<>>
                /\ ppc' = "top" /\ pblock' = 0)]_vars
    /\ [][(spc = "returned" /\ cpc = "idle") => delivered' = delivered]_vars

\* stop() has returned and the producer, which has ended since, left a
\* block in the buffer
C31_Witness ==
    /\ spc = "returned"
    /\ ppc = "exited"
    /\ Len(prefeteched_block) = 1
    /\ pblock = 0

(***************************************************************************)
(* Properties of the rollbacks the ingestion loop asks for.                *)
(***************************************************************************)
\* C32: the ingestion loop calls rollback_block(h) only for a height h at
\* which the ledger holds an applied block that has not been rolled back
\* since: never for a height that was never applied, and never twice for
\* the same height without the height being applied again in between.
C32_RollbackOnlyApplied ==
    [][(/\ Len(calls') = Len(calls) + 1
        /\ calls'[Len(calls')].op = "rollback_block")
       => HasUndo(store, calls'[Len(calls')].a)]_vars

(***************************************************************************)
(* Properties of the cursor.                                               *)
(***************************************************************************)
\* C33: at the top of every iteration of the ingestion loop that follows
\* an applied block, current_height is the store's get_last_indexed_block(),
\* the height of the last block that was ended and not rolled back since,
\* whatever applied blocks, rollbacks and absent fetches came before.
C33_CursorIsLastIndexed ==
    (pc = "loop" /\ \E i \in 1..Len(calls) : calls[i].op = "end_block")
      => /\ current_height = get_last_indexed_block(store)
         /\ HasUndo(store, current_height)
         /\ current_height = LastBlockCalls[1].a
         /\ calls[Len(calls)].op = "end_block"

\* the loop is at its top after a block, a reorganisation that replaced it
\* and an absent fetch
C33_Witness ==
    /\ pc = "loop"
    /\ none_count = 1
    /\ Len(Rollbacks(calls)) = 1
    /\ Len(snaps) = 2
    /\ calls[Len(calls)].op = "end_block"
    /\ current_height = get_last_indexed_block(store)
    /\ current_height = START_HEIGHT + 1

\* C34: whenever a fetcher is registered with the shutdown manager, in
\* particular when shutdown() runs, the class of the registered fetcher
\* defines the method it was registered under (stop).
C34_RegisteredFetcherStops ==
    \A r \in registered :
        r.name = "Block Fetcher" => r.close_method \in MethodsOf(r.resource)

====
